---- MODULE Spec2Model ----
(***************************************************************************)
(* Model of the costyrion HTTP service (src/src/main.rs): the startup      *)
(* sequence of main(), the router built by app(), and the four handlers.   *)
(* Requests and responses are recorded in a log so that the CRUD contract  *)
(* can be stated over what a client observes.                              *)
(***************************************************************************)
EXTENDS Integers, Sequences, FiniteSets, TLC

\* ---------------------------------------------------------------- bounds
\* Requests served in one run.
MaxOps == 3
\* Requests served by the first run in the two-run specification.
MaxHist == 2
\* Path ids range over 0..MaxId and the id create_resource hands out.
MaxId == 1

\* ------------------------------------------------------ program constants
\* create_resource: id: Some(1337)
CreatedId == 1337
\* StatusCode::OK, ::CREATED, ::BAD_REQUEST, ::NOT_FOUND, ::METHOD_NOT_ALLOWED
OK == 200
CREATED == 201
BAD_REQUEST == 400
NOT_FOUND == 404
METHOD_NOT_ALLOWED == 405

\* ----------------------------------------------------------- Option<T>
None == <<>>
Some(x) == <<x>>
IsSome(o) == Len(o) = 1
Unwrap(o) == o[1]

\* ------------------------------------------------------------ input sets
Ids == (0..MaxId) \cup {CreatedId}
Names == {"Test Resource", "Costyrion"}

\* ------------------------------------------------- struct Resource, serde
\* struct Resource { id: Option<u64>, name: String }
Resource == [id : {None} \cup {Some(i) : i \in Ids}, name : Names]

\* Serialize: the id field is skipped when it is None.
Serialize(resource) ==
    IF resource.id = None
    THEN [name |-> resource.name]
    ELSE [id |-> Unwrap(resource.id), name |-> resource.name]

\* Deserialize: a missing id field reads as None.
Deserialize(json) ==
    [id |-> IF "id" \in DOMAIN json THEN Some(json.id) ELSE None,
     name |-> json.name]

\* ------------------------------------------- decimal formatting / parsing
Digits == <<"0", "1", "2", "3", "4", "5", "6", "7", "8", "9">>

RECURSIVE Decimal(_)
\* format!("{}", id) for an unsigned integer: its decimal digits.
Decimal(n) ==
    IF n < 10 THEN <<Digits[n + 1]>>
    ELSE Decimal(n \div 10) \o <<Digits[(n % 10) + 1]>>

DigitValue(c) == CHOOSE d \in 0..9 : Digits[d + 1] = c
IsDigit(c) == \E d \in 0..9 : Digits[d + 1] = c

RECURSIVE ParseDigits(_, _)
ParseDigits(s, acc) ==
    IF s = <<>> THEN acc
    ELSE ParseDigits(Tail(s), acc * 10 + DigitValue(Head(s)))

\* Path<u64>: the path segment parsed as an unsigned integer, None when it
\* is not a number.
ParseU64(s) ==
    IF s # <<>> /\ \A k \in 1..Len(s) : IsDigit(s[k])
    THEN Some(ParseDigits(s, 0))
    ELSE None

\* ------------------------------------------------------------- responses
JsonBody(json) == [ctype |-> "application/json", json |-> json, text |-> <<>>]
TextBody(text) == [ctype |-> "text/plain", json |-> [name |-> ""], text |-> text]
EmptyBody == [ctype |-> "", json |-> [name |-> ""], text |-> <<>>]
Response(status, body) == [status |-> status, body |-> body]

VARIABLES
    pc,        \* position of main()
    env,       \* the MONGODB_URL environment variable, an Option
    uri,       \* main's local uri
    options,   \* main's local options
    client,    \* main's local client
    db,        \* main's local db
    router,    \* main's local app
    listener,  \* main's local listener
    log,       \* requests served by this process with their responses
    fresh      \* the request served by a second, freshly started process

vars == <<pc, env, uri, options, client, db, router, listener, log, fresh>>

\* ------------------------------------------------------------- handlers
\* async fn handler() -> String
handler == <<"Costyrion!">>

\* Mutant: the payload's id is kept when it carries one.
create_resource_payload_id(payload) ==
    <<CREATED, [id |-> IF IsSome(payload.id) THEN payload.id ELSE Some(CreatedId),
                name |-> payload.name]>>

\* Mutant: ids are allocated from a counter of the resources created so far.
create_resource_counter(payload) ==
    <<CREATED,
      [id |-> Some(CreatedId + Cardinality({k \in 1..Len(log) :
                                              log[k].req.method = "POST"})),
       name |-> payload.name]>>

\* async fn create_resource(Json(payload)) -> (StatusCode, Json<Resource>)
create_resource(payload) ==
    <<CREATED, [id |-> Some(CreatedId), name |-> payload.name]>>

\* Mutant: a second delete of the same id reports NOT_FOUND.
delete_resource_once(id) ==
    [ok |-> ~\E k \in 1..Len(log) :
                /\ log[k].req.method = "DELETE"
                /\ log[k].req.path = <<<<"resource">>, Decimal(id)>>,
     val |-> Response(OK, TextBody(<<"Resource with id: ">> \o Decimal(id)
                                   \o <<" deleted successfully">>)),
     err |-> NOT_FOUND]

\* async fn delete_resource(Path(id)) -> Result<Response<Body>, StatusCode>
delete_resource(id) ==
    [ok |-> TRUE,
     val |-> Response(OK, TextBody(<<"Resource with id: ">> \o Decimal(id)
                                   \o <<" deleted successfully">>)),
     err |-> OK]

\* Mutant: a deleted id reads as NOT_FOUND.
get_resource_after_delete(id) ==
    [ok |-> ~\E k \in 1..Len(log) :
                /\ log[k].req.method = "DELETE"
                /\ log[k].req.path = <<<<"resource">>, Decimal(id)>>,
     val |-> [id |-> Some(id), name |-> "Costyrion"],
     err |-> NOT_FOUND]

\* async fn get_resource(Path(id)) -> Result<Json<Resource>, StatusCode>
get_resource(id) ==
    [ok |-> TRUE, val |-> [id |-> Some(id), name |-> "Costyrion"], err |-> OK]

\* ---------------------------------------------------------------- router
\* A path is a sequence of segments, a segment a sequence of characters (a
\* literal word counts as one character).
Lit(word) == <<word>>
Param == <<":id">>

\* fn app() -> Router
app ==
    { [path |-> <<>>, method |-> "GET", handler |-> "handler"],
      [path |-> <<Lit("resource")>>, method |-> "POST",
       handler |-> "create_resource"],
      [path |-> <<Lit("resource"), Param>>, method |-> "DELETE",
       handler |-> "delete_resource"],
      [path |-> <<Lit("resource"), Param>>, method |-> "GET",
       handler |-> "get_resource"] }

\* A route pattern matches a path of the same length whose segments are equal
\* to the pattern's, the ":id" segment matching any segment.
Matches(pattern, path) ==
    /\ Len(pattern) = Len(path)
    /\ \A k \in 1..Len(pattern) : pattern[k] = Param \/ pattern[k] = path[k]

\* The handler's return value turned into a response.
Call(h, req) ==
    CASE h = "handler" -> Response(OK, TextBody(handler))
      [] h = "create_resource" ->
            LET r == create_resource(Deserialize(req.body))
            IN  Response(r[1], JsonBody(Serialize(r[2])))
      [] h = "delete_resource" ->
            LET id == ParseU64(req.path[2])
            IN  IF ~IsSome(id) THEN Response(BAD_REQUEST, EmptyBody)
                ELSE LET r == delete_resource(Unwrap(id))
                     IN  IF r.ok THEN r.val ELSE Response(r.err, EmptyBody)
      [] h = "get_resource" ->
            LET id == ParseU64(req.path[2])
            IN  IF ~IsSome(id) THEN Response(BAD_REQUEST, EmptyBody)
                ELSE LET r == get_resource(Unwrap(id))
                     IN  IF r.ok THEN Response(OK, JsonBody(Serialize(r.val)))
                         ELSE Response(r.err, EmptyBody)

\* The router's answer: 404 when no route matches the path, 405 when a route
\* matches the path but none has the method, else the handler's response.
Dispatch(routes, req) ==
    LET onPath == {r \in routes : Matches(r.path, req.path)}
        onMethod == {r \in onPath : r.method = req.method}
    IN  IF onPath = {} THEN Response(NOT_FOUND, EmptyBody)
        ELSE IF onMethod = {} THEN Response(METHOD_NOT_ALLOWED, EmptyBody)
        ELSE Call((CHOOSE r \in onMethod : TRUE).handler, req)

\* -------------------------------------------------------------- requests
ResourcePath(seg) == <<Lit("resource"), seg>>
\* Path segments sent: format!("/resource/{}", id), and one that is no number.
Segments == {Decimal(i) : i \in Ids} \cup {Lit("abc")}

Requests ==
    { [method |-> "GET", path |-> <<>>, body |-> [name |-> ""]],
      [method |-> "GET", path |-> <<Lit("resource")>>, body |-> [name |-> ""]] }
    \cup { [method |-> "POST", path |-> <<Lit("resource")>>, body |-> Serialize(r)] :
              r \in Resource }
    \cup { [method |-> m, path |-> ResourcePath(seg), body |-> [name |-> ""]] :
              m \in {"GET", "DELETE"}, seg \in Segments }
    \cup { [method |-> "PATCH", path |-> ResourcePath(Decimal(i)),
            body |-> [name |-> n]] : i \in Ids, n \in Names }

\* ------------------------------------------------------------------ main
Init ==
    /\ pc = "env_var"
    /\ env \in {None, Some("mongodb://localhost:27017")}
    /\ uri = None
    /\ options = None
    /\ client = None
    /\ db = None
    /\ router = {}
    /\ listener = None
    /\ log = <<>>
    /\ fresh = None

\* Mutant: a missing variable reads as the empty string instead of panicking.
main_env_var_or_default ==
    /\ pc = "env_var"
    /\ uri' = IF IsSome(env) THEN env ELSE Some("")
    /\ pc' = "parse"
    /\ UNCHANGED <<env, options, client, db, router, listener, log, fresh>>

\* let uri = env::var("MONGODB_URL").expect(..)
main_env_var ==
    /\ pc = "env_var"
    /\ IF IsSome(env)
       THEN uri' = env /\ pc' = "parse"
       ELSE uri' = uri /\ pc' = "panicked"
    /\ UNCHANGED <<env, options, client, db, router, listener, log, fresh>>

\* let mut options = ClientOptions::parse(&uri).await.unwrap();
\* options.app_name = Some("Costyrion".to_string());
main_parse ==
    /\ pc = "parse"
    /\ \E parsed \in BOOLEAN :
         IF parsed
         THEN /\ options' = Some([uri |-> Unwrap(uri), app_name |-> Some("Costyrion")])
              /\ pc' = "with_options"
         ELSE options' = options /\ pc' = "panicked"
    /\ UNCHANGED <<env, uri, client, db, router, listener, log, fresh>>

\* let client = Client::with_options(options).unwrap();
main_with_options ==
    /\ pc = "with_options"
    /\ \E built \in BOOLEAN :
         IF built
         THEN client' = Some([options |-> Unwrap(options)]) /\ pc' = "database"
         ELSE client' = client /\ pc' = "panicked"
    /\ UNCHANGED <<env, uri, options, db, router, listener, log, fresh>>

\* let db = client.database("costyrion");
main_database ==
    /\ pc = "database"
    /\ db' = Some([client |-> Unwrap(client), name |-> "costyrion"])
    /\ pc' = "app"
    /\ UNCHANGED <<env, uri, options, client, router, listener, log, fresh>>

\* let app = app();
main_app ==
    /\ pc = "app"
    /\ router' = app
    /\ pc' = "bind"
    /\ UNCHANGED <<env, uri, options, client, db, listener, log, fresh>>

\* let listener = tokio::net::TcpListener::bind("0.0.0.0:3000").await.unwrap();
main_bind ==
    /\ pc = "bind"
    /\ \E bound \in BOOLEAN :
         IF bound
         THEN listener' = Some("0.0.0.0:3000") /\ pc' = "serve"
         ELSE listener' = listener /\ pc' = "panicked"
    /\ UNCHANGED <<env, uri, options, client, db, router, log, fresh>>

\* axum::serve(listener, app): one request accepted on the listener, routed
\* and answered.
main_serve ==
    /\ pc = "serve"
    /\ IsSome(listener)
    /\ Len(log) < MaxOps
    /\ \E req \in Requests :
         log' = Append(log, [req |-> req, resp |-> Dispatch(router, req)])
    /\ UNCHANGED <<pc, env, uri, options, client, db, router, listener, fresh>>

\* A second process of the same program, started the same way, answers its
\* first request.
fresh_serve ==
    /\ pc = "serve"
    /\ IsSome(listener)
    /\ fresh = None
    /\ \E req \in Requests :
         fresh' = Some([req |-> req, resp |-> Dispatch(app, req)])
    /\ UNCHANGED <<pc, env, uri, options, client, db, router, listener, log>>

Startup ==
    \/ main_env_var
    \/ main_parse
    \/ main_with_options
    \/ main_database
    \/ main_app
    \/ main_bind

Next == Startup \/ main_serve

Spec == Init /\ [][Next]_vars

\* Two runs side by side: this process serving up to MaxHist requests, and a
\* fresh process serving its first.
NextPair ==
    \/ Startup
    \/ (Len(log) < MaxHist /\ main_serve)
    \/ fresh_serve

SpecPair == Init /\ [][NextPair]_vars

\* ------------------------------------------------ vocabulary of the claims
IsCreate(e) == e.req.method = "POST" /\ e.req.path = <<Lit("resource")>>
OnResourceId(e) ==
    /\ Len(e.req.path) = 2
    /\ e.req.path[1] = Lit("resource")
    /\ IsSome(ParseU64(e.req.path[2]))
IsRead(e) == e.req.method = "GET" /\ OnResourceId(e)
IsDelete(e) == e.req.method = "DELETE" /\ OnResourceId(e)
IsUpdate(e) == e.req.method = "PATCH" /\ OnResourceId(e)
PathId(e) == Unwrap(ParseU64(e.req.path[2]))
Succeeded(e) == e.resp.status \in 200..299
Json(e) == e.resp.body.json
HasId(e) == "id" \in DOMAIN Json(e)
\* Create returned this id at position k of the log.
Returned(k, id) ==
    IsCreate(log[k]) /\ Succeeded(log[k]) /\ HasId(log[k]) /\ Json(log[k]).id = id

\* C1: a Create followed by a Read of the id it returned yields a record equal
\* to the created one (same id, same name).
C1_CreateThenRead ==
    \A i \in 1..(Len(log) - 1) :
        ( /\ IsCreate(log[i]) /\ Succeeded(log[i]) /\ HasId(log[i])
          /\ IsRead(log[i + 1])
          /\ PathId(log[i + 1]) = Json(log[i]).id )
        => /\ log[i + 1].resp.status = 200
           /\ Json(log[i + 1]) = Json(log[i])

\* C2: once Delete(id) has succeeded, every later Read(id) and every later
\* Delete(id) reports 404.
C2_DeleteIsPermanent ==
    \A i \in 1..Len(log) : \A j \in (i + 1)..Len(log) :
        ( /\ IsDelete(log[i]) /\ Succeeded(log[i])
          /\ IsRead(log[j]) \/ IsDelete(log[j])
          /\ PathId(log[j]) = PathId(log[i]) )
        => log[j].resp.status = 404

\* C3: Read and Delete of an id that no prior Create returned report 404.
C3_UnknownIdNotFound ==
    \A j \in 1..Len(log) :
        ( /\ IsRead(log[j]) \/ IsDelete(log[j])
          /\ ~\E i \in 1..(j - 1) : Returned(i, PathId(log[j])) )
        => log[j].resp.status = 404

\* C4: any two successful Creates return distinct ids.
C4_CreatedIdsDistinct ==
    \A i \in 1..Len(log) : \A j \in (i + 1)..Len(log) :
        ( /\ IsCreate(log[i]) /\ Succeeded(log[i]) /\ HasId(log[i])
          /\ IsCreate(log[j]) /\ Succeeded(log[j]) /\ HasId(log[j]) )
        => Json(log[i]).id # Json(log[j]).id

\* C5: an Update (PATCH) of the name of an existing id is routed and succeeds,
\* and a Read that follows it returns the new name under the same id.
C5_UpdateThenRead ==
    \A j \in 1..Len(log) :
        ( /\ IsUpdate(log[j])
          /\ \E i \in 1..(j - 1) : Returned(i, PathId(log[j])) )
        => /\ log[j].resp.status = 200
           /\ ( /\ j < Len(log)
                /\ IsRead(log[j + 1])
                /\ PathId(log[j + 1]) = PathId(log[j]) )
              => /\ log[j + 1].resp.status = 200
                 /\ Json(log[j + 1]) =
                      [id |-> PathId(log[j]), name |-> log[j].req.body.name]

\* C6: every POST /resource is answered 201 with a record whose id is present
\* and is 1337 and whose name is the payload's name, whatever id the payload
\* carries and however many Creates came before.
C6_CreateAnswers1337 ==
    \A j \in 1..Len(log) :
        IsCreate(log[j])
        => /\ log[j].resp.status = 201
           /\ DOMAIN Json(log[j]) = {"id", "name"}
           /\ Json(log[j]).id = 1337
           /\ Json(log[j]).name = log[j].req.body.name

\* A Create whose payload carries another id, after an earlier Create.
C6_Witness ==
    \E i \in 1..Len(log) : \E j \in (i + 1)..Len(log) :
        /\ IsCreate(log[i])
        /\ IsCreate(log[j])
        /\ "id" \in DOMAIN log[j].req.body
        /\ log[j].req.body.id # 1337
        /\ log[j].resp.status = 201

\* C7: every GET /resource/{id} is answered 200 with a record whose id is the
\* path id and whose name is "Costyrion", whatever was issued before.
C7_ReadAnswersCostyrion ==
    \A j \in 1..Len(log) :
        IsRead(log[j])
        => /\ log[j].resp.status = 200
           /\ DOMAIN Json(log[j]) = {"id", "name"}
           /\ Json(log[j]).id = PathId(log[j])
           /\ Json(log[j]).name = "Costyrion"

\* A Read answered 200 for an id deleted earlier and never created.
C7_Witness ==
    \E i \in 1..Len(log) : \E j \in (i + 1)..Len(log) :
        /\ IsDelete(log[i])
        /\ IsRead(log[j])
        /\ PathId(log[j]) = PathId(log[i])
        /\ PathId(log[j]) # 1337
        /\ log[j].resp.status = 200

\* C8: every DELETE /resource/{id} is answered 200 with the body "Resource
\* with id: {id} deleted successfully" whose id reads back as the path id,
\* created or not, deleted before or not.
C8_DeleteAlwaysSucceeds ==
    \A j \in 1..Len(log) :
        IsDelete(log[j])
        => LET text == log[j].resp.body.text
           IN  /\ log[j].resp.status = 200
               /\ Len(text) >= 3
               /\ text[1] = "Resource with id: "
               /\ text[Len(text)] = " deleted successfully"
               /\ ParseU64(SubSeq(text, 2, Len(text) - 1)) = Some(PathId(log[j]))

\* The same never-created id deleted twice, both answered 200.
C8_Witness ==
    \E i \in 1..Len(log) : \E j \in (i + 1)..Len(log) :
        /\ IsDelete(log[i])
        /\ IsDelete(log[j])
        /\ PathId(log[j]) = PathId(log[i])
        /\ ~\E k \in 1..Len(log) : IsCreate(log[k])
        /\ log[i].resp.status = 200
        /\ log[j].resp.status = 200

\* C9: with MONGODB_URL absent, or the options or the client not built, the
\* process has terminated with no listener bound and no request served; a
\* served request comes after the variable was read, the client built and
\* the listener bound.
C9_StartupOrdering ==
    /\ env = None => /\ pc \in {"env_var", "panicked"}
                     /\ listener = None
                     /\ log = <<>>
    /\ (pc = "panicked" /\ (options = None \/ client = None))
       => listener = None /\ log = <<>>
    /\ log # <<>> => /\ IsSome(env) /\ uri = env
                     /\ IsSome(options)
                     /\ IsSome(client)
                     /\ IsSome(listener)

\* The process terminated because the variable is absent.
C9_Witness == pc = "panicked" /\ env = None /\ listener = None

====
